---------------------------- MODULE Spec2Model ----------------------------
(***************************************************************************)
(* Model of parse_veri_bet.py: the SportsScraper (get_event_date,          *)
(* parse_game_data), save_data_to_json and the polling loop of __main__.   *)
(*                                                                         *)
(* A text is a sequence of tokens.  A token is a record                    *)
(*   [k |-> kind, s |-> characters, n |-> number]                          *)
(* of kind "w" (a run of characters holding no digit and no white space),  *)
(* "ws" (white space), "int" (a signed integer numeral, n its value),      *)
(* "dec" (a signed numeral with one decimal, n its value in tenths) or     *)
(* "pint" (a signed integer numeral between parentheses, n its value).     *)
(* A float is represented by its value in tenths.                          *)
(***************************************************************************)
EXTENDS Integers, Sequences, FiniteSets, TLC

VARIABLES
    pc,                 \* position of the main program
    cycle,              \* number of driver.get calls made so far
    clock,              \* wall-clock time, advanced by time.sleep
    page,               \* the document the driver currently shows
    cached_event_date,  \* SportsScraper.cached_event_date
    event_date_utc,     \* local of parse_game_data
    game_rows,          \* local of parse_game_data
    idx,                \* position of "for row in game_rows" (1-based)
    items,              \* local of parse_game_data, then of __main__
    src,                \* history: src[k] is the index of the row items[k] was built from
    exc,                \* the exception that left the main loop, "none" if none did
    file,               \* contents of betting_data.json
    written             \* history: every record handed to save_data_to_json so far

vars == <<pc, cycle, clock, page, cached_event_date, event_date_utc, game_rows,
          idx, items, src, exc, file, written>>

\* ------------------------------------------------------------------ bounds
MaxCycles == 2
MaxRows == 2

\* ------------------------------------------------------------------ values
\* An optional value: Python's None, a lookup that finds no element
None == [k |-> "None", v |-> <<>>]
Timeout == [k |-> "TimeoutException", v |-> <<>>]
Absent == [k |-> "Absent", v |-> <<>>]
Some(x) == [k |-> "Some", v |-> x]

W(s) == [k |-> "w", s |-> s, n |-> 0]
WS(s) == [k |-> "ws", s |-> s, n |-> 0]
IntT(n) == [k |-> "int", s |-> "", n |-> n]
Dec(n) == [k |-> "dec", s |-> "", n |-> n]
PInt(n) == [k |-> "pint", s |-> "", n |-> n]

Min(S) == CHOOSE x \in S : \A y \in S : x <= y
Max(S) == CHOOSE x \in S : \A y \in S : x >= y

\* str.strip(): the text without its leading and trailing white space
Strip(t) ==
    LET body == {i \in 1..Len(t) : t[i].k # "ws"}
    IN IF body = {} THEN <<>> ELSE SubSeq(t, Min(body), Max(body))

\* str.replace("DRAW\n", ""): every occurrence of DRAW followed by a newline removed
RECURSIVE ReplaceDrawNl(_)
ReplaceDrawNl(t) ==
    IF Len(t) = 0 THEN <<>>
    ELSE IF Len(t) >= 2 /\ t[1] = W("DRAW") /\ t[2] = WS("\n")
         THEN ReplaceDrawNl(SubSeq(t, 3, Len(t)))
         ELSE <<t[1]>> \o ReplaceDrawNl(Tail(t))

\* ------------------------------------------------------------------ Text Normalizer
\* re.search(r"([-+]?\d+(\.\d+)?)"): the first numeral of the text, in or out of
\* parentheses; 0.0 when the text holds none
extract_spread(value_str) ==
    LET nums == {i \in 1..Len(value_str) : value_str[i].k \in {"int", "dec", "pint"}}
    IN IF nums = {} THEN 0
       ELSE LET m == value_str[Min(nums)]
            IN IF m.k = "dec" THEN m.n ELSE 10 * m.n

\* re.search(r"\(([-+]?\d+)\)"): the first parenthesized integer, without its
\* parentheses; the stripped text when there is none
extract_price(value_str) ==
    LET ps == {i \in 1..Len(value_str) : value_str[i].k = "pint"}
    IN IF ps = {} THEN Strip(value_str)
       ELSE <<IntT(value_str[Min(ps)].n)>>

\* ------------------------------------------------------------------ Item
Item(sport_league, date, team1, team2, period, line_type, price, side, team, spread) ==
    [sport_league |-> sport_league, event_date_utc |-> date, team1 |-> team1,
     team2 |-> team2, period |-> period, line_type |-> line_type, price |-> price,
     side |-> side, team |-> team, spread |-> spread, pitcher |-> ""]

\* Item(...) with the defaults of the dataclass: spread = 0.0
ItemDefault(sport_league, date, team1, team2, period, line_type, price, side, team) ==
    Item(sport_league, date, team1, team2, period, line_type, price, side, team, 0)


\* ------------------------------------------------------------------ the page
\* The texts of the cells of a game row's table, in document order.  Entry 0 of a
\* column is its header cell.
MoneylineTexts ==
    << <<W("ML")>>, <<PInt(-150)>>, <<PInt(130)>>, <<W("DRAW"), WS("\n"), IntT(250), WS(" ")>> >>
SpreadTexts ==
    << <<W("SPREAD")>>, <<Dec(-35), WS(" "), PInt(-110)>>, <<Dec(35), WS(" "), PInt(-105)>> >>
TotalTexts ==
    << <<W("TOTAL")>>, <<W("O"), WS(" "), Dec(445), WS(" "), PInt(-110)>>,
       <<W("U"), WS(" "), Dec(445), WS(" "), PInt(-112)>> >>
TeamTexts == <<"Lions", "Bears", "Packers">>

\* The league link of a row: absent, an <a> without href, or an <a> whose href is
\* given by its parts around "f="
LeagueLinks ==
    {Absent, Some(None),
     Some(Some(<<"https://veri.bet/betting-trends?", "nfl">>)),
     Some(Some(<<"https://veri.bet/betting-trends?", "soccer">>))}

\* The period badge of a row: absent, or its text
FINAL == <<W("FINAL")>>
FirstHalf == <<IntT(1), W("H")>>
Badges == {Absent, Some(FirstHalf), Some(FINAL)}

MkRow(nt, nm, ns, ntot, link, badge) ==
    [team_names |-> SubSeq(TeamTexts, 1, nt),
     moneyline_prices |-> SubSeq(MoneylineTexts, 1, nm),
     spread_prices |-> SubSeq(SpreadTexts, 1, ns),
     total_prices |-> SubSeq(TotalTexts, 1, ntot),
     link |-> link, badge |-> badge]

\* ------------------------------------------------------------------ Row Extractor
\* Python's s[k] on a list: IndexError unless 0 <= k < len(s)
InRange(s, k) == k < Len(s)
At(s, k) == IF InRange(s, k) THEN s[k + 1] ELSE <<>>

Upper(s) ==
    CASE s = "nfl" -> "NFL"
      [] s = "soccer" -> "SOCCER"
      [] OTHER -> s

\* line 173: get_attribute("href").split("f=")[-1].upper(); None has no split
LinkRaises(row) == row.link # Absent /\ row.link.v = None

SportLeague(row) ==
    IF row.link = Absent \/ LinkRaises(row) THEN "UNKNOWN"
    ELSE LET parts == row.link.v.v IN Upper(parts[Len(parts)])

\* "SOCCER" in sport_league
ContainsSOCCER(sport_league) == sport_league \in {"SOCCER"}

\* contains(text(), 'FINAL')
ContainsFINAL(text) == \E i \in 1..Len(text) : text[i] = W("FINAL")

FULL_GAME == <<W("FULL"), WS(" "), W("GAME")>>

\* lines 177-185: the row's own badge is looked up and must exist, but the element
\* whose text is read is the document's first badge containing FINAL
Period(row, rows) ==
    LET finals == {i \in 1..Len(rows) : rows[i].badge # Absent /\ ContainsFINAL(rows[i].badge.v)}
    IN IF row.badge = Absent THEN FULL_GAME
       ELSE IF finals = {} THEN FULL_GAME
       ELSE Strip(rows[Min(finals)].badge.v)

\* the test of line 187 with "and" in place of "or"
PreconditionFailsBoth(row) == Len(row.team_names) < 2 /\ Len(row.moneyline_prices) < 2

\* line 187
PreconditionFails(row) == Len(row.team_names) < 2 \/ Len(row.moneyline_prices) < 2

\* One items.append(Item(...)) statement: the list entries its arguments read, and
\* the record it appends when none of the reads raises
AppendStmt(reads, item) == [reads |-> reads, item |-> item]

\* the read of entry k of list s, as <<len(s), k>>
Rd(s, k) == <<Len(s), k>>
Team1(row) == At(row.team_names, 0)
Team2(row) == At(row.team_names, 1)

\* lines 193-200: moneyline bets
MoneylineStmts(row, sport_league, date, period) ==
    LET ml == row.moneyline_prices
        sp == row.spread_prices
    IN IF Len(ml) >= 2
       THEN << AppendStmt({Rd(ml, 1), Rd(sp, 1)},
                 Item(sport_league, date, Team1(row), Team2(row), period, "moneyline",
                      extract_price(At(ml, 1)), Team1(row), Team1(row),
                      extract_spread(At(sp, 1)))),
               AppendStmt({Rd(ml, 2), Rd(sp, 2)},
                 Item(sport_league, date, Team1(row), Team2(row), period, "moneyline",
                      extract_price(At(ml, 2)), Team2(row), Team2(row),
                      extract_spread(At(sp, 2)))) >>
       ELSE <<>>

\* lines 202-206: draw bet (only for soccer)
DrawStmts(row, sport_league, date, period) ==
    LET ml == row.moneyline_prices
    IN IF ContainsSOCCER(sport_league) /\ Len(ml) >= 4
       THEN << AppendStmt({Rd(ml, 3)},
                 ItemDefault(sport_league, date, Team1(row), Team2(row), period, "moneyline",
                             Strip(ReplaceDrawNl(At(ml, 3))), "draw", "draw")) >>
       ELSE <<>>

\* lines 208-215: spread bets
SpreadStmts(row, sport_league, date, period) ==
    LET sp == row.spread_prices
    IN IF Len(sp) >= 2
       THEN << AppendStmt({Rd(sp, 1)},
                 Item(sport_league, date, Team1(row), Team2(row), period, "spread",
                      extract_price(At(sp, 1)), Team1(row), Team1(row),
                      extract_spread(At(sp, 1)))),
               AppendStmt({Rd(sp, 2)},
                 Item(sport_league, date, Team1(row), Team2(row), period, "spread",
                      extract_price(At(sp, 2)), Team2(row), Team2(row),
                      extract_spread(At(sp, 2)))) >>
       ELSE <<>>

\* lines 217-224: over/under bets
TotalStmts(row, sport_league, date, period) ==
    LET sp == row.spread_prices
        tp == row.total_prices
    IN IF Len(tp) >= 2
       THEN << AppendStmt({Rd(tp, 1), Rd(sp, 1)},
                 Item(sport_league, date, Team1(row), Team2(row), period, "over/under",
                      extract_price(At(tp, 1)), "over", "total", extract_spread(At(sp, 1)))),
               AppendStmt({Rd(tp, 2), Rd(sp, 2)},
                 Item(sport_league, date, Team1(row), Team2(row), period, "over/under",
                      extract_price(At(tp, 2)), "under", "total", extract_spread(At(sp, 2)))) >>
       ELSE <<>>

\* the statements with the spread bets moved before the draw bet
AppendsSpreadFirst(row, sport_league, date, period) ==
    MoneylineStmts(row, sport_league, date, period)
    \o SpreadStmts(row, sport_league, date, period)
    \o DrawStmts(row, sport_league, date, period)
    \o TotalStmts(row, sport_league, date, period)

\* lines 193-224: the append statements the row reaches, in program order, when no
\* statement raises
Appends(row, sport_league, date, period) ==
    MoneylineStmts(row, sport_league, date, period)
    \o DrawStmts(row, sport_league, date, period)
    \o SpreadStmts(row, sport_league, date, period)
    \o TotalStmts(row, sport_league, date, period)

\* a statement raises IndexError when one of its reads is past the end of its list
StmtRaises(stmt) == \E r \in stmt.reads : ~(r[2] < r[1])

\* lines 164-230: the body of the loop for one row: the records it appends to items
\* and the exception its except clause catches ("none" when it ends normally)
ProcessRowBody(row, rows, date) ==
    LET sport_league == SportLeague(row)
        period == Period(row, rows)
        stmts == Appends(row, sport_league, date, period)
        bad == {i \in 1..Len(stmts) : StmtRaises(stmts[i])}
        n == IF bad = {} THEN Len(stmts) ELSE Min(bad) - 1
    IN IF LinkRaises(row) THEN [appended |-> <<>>, caught |-> "AttributeError"]
       ELSE IF PreconditionFails(row) THEN [appended |-> <<>>, caught |-> "none"]
       ELSE IF ~InRange(row.team_names, 1) THEN [appended |-> <<>>, caught |-> "IndexError"]
       ELSE [appended |-> [i \in 1..n |-> stmts[i].item],
             caught |-> IF bad = {} THEN "none" ELSE "IndexError"]


\* ------------------------------------------------------------------ Date Resolver
\* The value of the date control: its characters as the fields around a separator
\* (the empty string has no field and no separator)
RawDate(sep, fields) == [sep |-> sep, f |-> fields]
EmptyValue == RawDate("", <<>>)

IsLeap(y) == (y % 4 = 0 /\ y % 100 # 0) \/ y % 400 = 0
DaysIn(m, y) ==
    IF m = 2 THEN (IF IsLeap(y) THEN 29 ELSE 28)
    ELSE IF m \in {4, 6, 9, 11} THEN 30 ELSE 31

\* datetime.strptime(f"{raw_date} {current_time}", "%m-%d-%Y %H:%M:%S") raises
\* ValueError unless the value is month-day-year of a calendar date
StrptimeRaises(raw) ==
    ~( /\ raw.sep = "-"
       /\ Len(raw.f) = 3
       /\ raw.f[1] \in 1..12
       /\ raw.f[3] \in 1..9999
       /\ raw.f[2] \in 1..DaysIn(raw.f[1], raw.f[3]) )

Strptime(raw, time) == [year |-> raw.f[3], month |-> raw.f[1], day |-> raw.f[2], time |-> time]

\* strftime("%Y-%m-%dT%H:%M:%S+00:00"): the fields in the order the string holds them
Strftime(dt) == <<dt.year, dt.month, dt.day, dt.time>>

\* datetime.utcnow() and datetime.now(): the clock counts the sleeps of the loop
UtcNow(now) == [year |-> 2026, month |-> 11, day |-> 1, time |-> now]

\* bool(self.cached_event_date): None and the empty string are false
Truthy(cached) == cached # None /\ cached # Some(<<>>)

\* lines 126-152: the value returned, the cache afterwards and the exception raised
\* ("none" when the call returns)
get_event_date(cached, datepicker, now) ==
    IF Truthy(cached)
    THEN [ret |-> cached.v, cache |-> cached, raised |-> "none"]
    ELSE IF ~datepicker.visible
    THEN [ret |-> Strftime(UtcNow(now)), cache |-> Some(Strftime(UtcNow(now))),
          raised |-> "none"]
    ELSE IF datepicker.value = EmptyValue
    THEN [ret |-> Strftime(UtcNow(now)), cache |-> Some(Strftime(UtcNow(now))),
          raised |-> "none"]
    ELSE IF StrptimeRaises(datepicker.value)
    THEN [ret |-> <<>>, cache |-> cached, raised |-> "ValueError"]
    ELSE [ret |-> Strftime(Strptime(datepicker.value, now)),
          cache |-> Some(Strftime(Strptime(datepicker.value, now))),
          raised |-> "none"]

\* ------------------------------------------------------------------ Batch Orchestrator
\* an except clause for the exception of the element lookups instead
CaughtNoSuchElement(e) == e = "NoSuchElementException"

\* line 232: the only except clause around the body of parse_game_data
CaughtByParse(e) == e = "TimeoutException"

\* lines 238-241: open(filename, "w") truncates the file before the dump
save_data_to_json(old, new_items) == Some(new_items)

\* ------------------------------------------------------------------ inputs
Seqs(S, n) == UNION {[1..k -> S] : k \in 0..n}
NonEmptySeqs(S, n) == UNION {[1..k -> S] : k \in 1..n}

DateControl(visible, value) == [visible |-> visible, value |-> value]
LoopDateControls ==
    {DateControl(FALSE, EmptyValue), DateControl(TRUE, EmptyValue),
     DateControl(TRUE, RawDate("-", <<11, 1, 2026>>)),
     DateControl(TRUE, RawDate("-", <<11, 2, 2026>>)),
     DateControl(TRUE, RawDate("-", <<2026, 11, 1>>))}

Link(id) == Some(Some(<<"https://veri.bet/betting-trends?", id>>))

\* visibility_of_all_elements_located: a non-empty list of rows, or a timeout
RowSet(visible, rows) == [visible |-> visible, rows |-> rows]
Page(datepicker, rowset) == [datepicker |-> datepicker, rowset |-> rowset]
BlankPage == Page(DateControl(FALSE, EmptyValue), RowSet(FALSE, <<>>))

LoopRows == {MkRow(2, 3, 3, 0, Link("nfl"), Absent), MkRow(1, 3, 3, 3, Absent, Absent)}
LoopPages ==
    {Page(d, r) : d \in LoopDateControls,
                  r \in {RowSet(FALSE, <<>>)} \cup
                        {RowSet(TRUE, rs) : rs \in NonEmptySeqs(LoopRows, MaxRows)}}

\* The rows of a page of SpecRows: one row of any type, at any position among rows
\* of the context types
RowTypes ==
    {MkRow(nt, nm, ns, ntot, link, badge) :
        nt \in {1, 2}, nm \in {1, 2, 3, 4}, ns \in {0, 1, 2, 3}, ntot \in {0, 2, 3},
        link \in LeagueLinks, badge \in Badges}
ContextRows ==
    {MkRow(2, 3, 3, 3, Link("nfl"), Some(FINAL)),
     MkRow(2, 4, 3, 0, Link("soccer"), Some(FirstHalf)),
     MkRow(1, 3, 3, 3, Absent, Absent)}
InsertAt(s, i, x) == SubSeq(s, 1, i - 1) \o <<x>> \o SubSeq(s, i, Len(s))
RowLists ==
    {InsertAt(ctx, i, r) : <<ctx, i>> \in {<<c, j>> \in Seqs(ContextRows, MaxRows - 1) \X (1..MaxRows) :
                                             j <= Len(c) + 1},
                           r \in RowTypes}
RowPages ==
    {Page(DateControl(TRUE, RawDate("-", <<11, 1, 2026>>)), r) :
        r \in {RowSet(FALSE, <<>>)} \cup {RowSet(TRUE, rs) : rs \in RowLists}}

\* ------------------------------------------------------------------ the program
Init ==
    /\ pc = "get"
    /\ cycle = 0
    /\ clock = 0
    /\ page = BlankPage
    /\ cached_event_date = None
    /\ event_date_utc = <<>>
    /\ game_rows = None
    /\ idx = 0
    /\ items = <<>>
    /\ src = <<>>
    /\ exc = "none"
    /\ file = Absent
    /\ written = <<>>

\* line 249: scraper.driver.get(BASE_URL)
Navigate(pages) ==
    /\ pc = "get"
    /\ cycle < MaxCycles
    /\ \E p \in pages : page' = p
    /\ cycle' = cycle + 1
    /\ pc' = "parse"
    /\ UNCHANGED <<clock, cached_event_date, event_date_utc, game_rows, idx, items,
                   src, exc, file, written>>

\* lines 156-158: items = [] and the call of get_event_date
GetEventDate ==
    /\ pc = "parse"
    /\ LET r == get_event_date(cached_event_date, page.datepicker, clock)
       IN /\ cached_event_date' = r.cache
          /\ event_date_utc' = r.ret
          /\ IF r.raised = "none" THEN pc' = "wait" /\ exc' = exc
             ELSE IF CaughtByParse(r.raised) THEN pc' = "save" /\ exc' = exc
             ELSE pc' = "crashed" /\ exc' = r.raised
    /\ items' = <<>>
    /\ src' = <<>>
    /\ game_rows' = None
    /\ idx' = 0
    /\ UNCHANGED <<cycle, clock, page, file, written>>

\* lines 159-161 and 232-235: the wait for the rows
WaitRows ==
    /\ pc = "wait"
    /\ IF page.rowset.visible
       THEN game_rows' = Some(page.rowset.rows) /\ idx' = 1 /\ pc' = "rows" /\ exc' = exc
       ELSE /\ game_rows' = Timeout
            /\ idx' = idx
            /\ IF CaughtByParse("TimeoutException") THEN pc' = "save" /\ exc' = exc
               ELSE pc' = "crashed" /\ exc' = "TimeoutException"
    /\ UNCHANGED <<cycle, clock, page, cached_event_date, event_date_utc, items, src,
                   file, written>>

\* lines 163-230: one iteration of the loop over the rows; after the last row
\* parse_game_data returns items (line 235)
ProcessRow ==
    /\ pc = "rows"
    /\ idx <= Len(game_rows.v)
    /\ LET r == ProcessRowBody(game_rows.v[idx], game_rows.v, event_date_utc)
       IN /\ items' = items \o r.appended
          /\ src' = src \o [i \in 1..Len(r.appended) |-> idx]
    /\ idx' = idx + 1
    /\ pc' = IF idx = Len(game_rows.v) THEN "save" ELSE "rows"
    /\ UNCHANGED <<cycle, clock, page, cached_event_date, event_date_utc, game_rows,
                   exc, file, written>>

\* line 253: save_data_to_json(items)
SaveData ==
    /\ pc = "save"
    /\ file' = save_data_to_json(file, items)
    /\ written' = written \o items
    /\ pc' = "sleep"
    /\ UNCHANGED <<cycle, clock, page, cached_event_date, event_date_utc, game_rows,
                   idx, items, src, exc>>

\* line 257: time.sleep(SCRAPE_INTERVAL), then the next iteration of while True
Sleep ==
    /\ pc = "sleep"
    /\ clock' = clock + 1
    /\ pc' = "get"
    /\ UNCHANGED <<cycle, page, cached_event_date, event_date_utc, game_rows, idx,
                   items, src, exc, file, written>>

Next == Navigate(LoopPages) \/ GetEventDate \/ WaitRows \/ ProcessRow \/ SaveData \/ Sleep

Spec == Init /\ [][Next]_vars

\* One call of parse_game_data, and the save that follows it, on the first page the
\* driver loads
InitRows ==
    /\ pc = "parse"
    /\ cycle = 1
    /\ clock = 0
    /\ page \in RowPages
    /\ cached_event_date = None
    /\ event_date_utc = <<>>
    /\ game_rows = None
    /\ idx = 0
    /\ items = <<>>
    /\ src = <<>>
    /\ exc = "none"
    /\ file = Absent
    /\ written = <<>>

NextRows == GetEventDate \/ WaitRows \/ ProcessRow \/ SaveData \/ Sleep

SpecRows == InitRows /\ [][NextRows]_vars

\* ------------------------------------------------------------------ properties
\* the rows parse_game_data iterates over, once the wait has returned them
HasRows == game_rows.k = "Some"
Rows == game_rows.v
\* the rows whose iteration has ended
Processed == 1..(idx - 1)
\* the positions in items of the records built from row i
RecordsOf(i) == {k \in 1..Len(items) : src[k] = i}
RecordsOfType(i, line_type) == {k \in RecordsOf(i) : items[k].line_type = line_type}
DrawsOf(i) == {k \in RecordsOf(i) : items[k].side = "draw"}
Caught(i) == ProcessRowBody(Rows[i], Rows, event_date_utc).caught
PassesPrecondition(row) == Len(row.team_names) >= 2 /\ Len(row.moneyline_prices) >= 2
Count(s, x) == Cardinality({k \in 1..Len(s) : s[k] = x})

\* C1: a row during whose processing an exception is raised leaves no record in
\* the list, and the loop goes on with the rows after it.
C1_RaisingRowLeavesNoRecord ==
    HasRows =>
        \A i \in Processed :
            Caught(i) # "none" =>
                /\ RecordsOf(i) = {}
                /\ exc = "none"
                /\ (i < Len(Rows) => pc = "rows" \/ i + 1 \in Processed)

\* C2: a row with at least 2 team names and at least 2 moneyline entries gives
\* exactly 2 team moneyline records, 2 spread records iff it has at least 2 spread
\* entries (else none) and 2 over/under records iff it has at least 2 total entries
\* (else none).
C2_MarketCounts ==
    HasRows =>
        \A i \in Processed :
            PassesPrecondition(Rows[i]) =>
                /\ Cardinality(RecordsOfType(i, "moneyline") \ DrawsOf(i)) = 2
                /\ Cardinality(RecordsOfType(i, "spread")) =
                       (IF Len(Rows[i].spread_prices) >= 2 THEN 2 ELSE 0)
                /\ Cardinality(RecordsOfType(i, "over/under")) =
                       (IF Len(Rows[i].total_prices) >= 2 THEN 2 ELSE 0)

\* C3: no exception leaves get_event_date or parse_game_data, whatever the date
\* control shows.
C3_NeverRaises == exc = "none"

\* C4: after each navigation the event date is computed from the date control of
\* the page just loaded: when that control shows a calendar date, the date returned
\* by get_event_date and carried by the cycle's records is that date.
C4_DateFollowsNavigation ==
    LET d == page.datepicker
    IN (pc \in {"wait", "rows", "save"} /\ d.visible /\ d.value # EmptyValue
            /\ ~StrptimeRaises(d.value)) =>
        /\ SubSeq(event_date_utc, 1, 3) = <<d.value.f[3], d.value.f[1], d.value.f[2]>>
        /\ \A k \in 1..Len(items) :
               SubSeq(items[k].event_date_utc, 1, 3) = <<d.value.f[3], d.value.f[1], d.value.f[2]>>

\* C5: the period of a record is the trimmed text of the badge of the row it was
\* built from, and FULL GAME when that row has no badge.
C5_PeriodIsRowBadge ==
    HasRows =>
        \A k \in 1..Len(items) :
            items[k].period =
                (IF Rows[src[k]].badge = Absent THEN FULL_GAME
                 ELSE Strip(Rows[src[k]].badge.v))

\* C6: every record of the list was built from a row with at least 2 team names and
\* at least 2 moneyline entries: a row with fewer of either leaves no record.
C6_NoRecordFromFailingRow ==
    HasRows =>
        /\ Len(src) = Len(items)
        /\ \A k \in 1..Len(items) :
               /\ src[k] \in Processed
               /\ Len(Rows[src[k]].team_names) >= 2
               /\ Len(Rows[src[k]].moneyline_prices) >= 2

\* C6 witness: the list is returned for a page with a row of 2 teams, 1 moneyline
\* entry and 3 spread entries, and with records of another row.
C6_Witness ==
    /\ pc = "save"
    /\ HasRows
    /\ items # <<>>
    /\ \E i \in 1..Len(Rows) :
           /\ Len(Rows[i].team_names) >= 2
           /\ Len(Rows[i].moneyline_prices) < 2
           /\ Len(Rows[i].spread_prices) >= 3
           /\ RecordsOf(i) = {}

\* C7: a row whose league id does not contain SOCCER gives no draw record; a row
\* that passes the precondition, whose league id contains SOCCER and that has at
\* least 4 moneyline entries gives exactly one, a moneyline record of team draw and
\* spread 0.0.
C7_DrawRecords ==
    HasRows =>
        \A i \in Processed :
            /\ ~ContainsSOCCER(SportLeague(Rows[i])) => DrawsOf(i) = {}
            /\ ( /\ PassesPrecondition(Rows[i])
                 /\ ContainsSOCCER(SportLeague(Rows[i]))
                 /\ Len(Rows[i].moneyline_prices) >= 4 ) =>
                   /\ Cardinality(DrawsOf(i)) = 1
                   /\ \A k \in DrawsOf(i) :
                          /\ items[k].line_type = "moneyline"
                          /\ items[k].team = "draw"
                          /\ items[k].spread = 0

\* C8: when the wait for the rows times out, no exception leaves parse_game_data,
\* the list it returns is empty, that empty list is what is saved, and the loop can
\* start its next cycle.
C8_RowTimeoutReturnsEmpty ==
    game_rows = Timeout =>
        /\ exc = "none"
        /\ pc \in {"save", "sleep", "get", "parse"}
        /\ items = <<>>
        /\ (pc \in {"sleep", "get", "parse"} => file = Some(<<>>))
        /\ (pc = "get" /\ cycle < MaxCycles => ENABLED Navigate(LoopPages))

\* C8 witness: the cycle after one whose wait for the rows timed out has loaded its
\* page.
C8_Witness == game_rows = Timeout /\ pc = "parse" /\ cycle >= 2

\* the place of a record among the records of its row: moneyline of team1 and of
\* team2, draw, spread of team1 and of team2, over, under
Rank(item) ==
    CASE item.line_type = "moneyline" /\ item.side = "draw" -> 3
      [] item.line_type = "moneyline" /\ item.side = item.team1 -> 1
      [] item.line_type = "moneyline" /\ item.side = item.team2 -> 2
      [] item.line_type = "spread" /\ item.side = item.team1 -> 4
      [] item.line_type = "spread" /\ item.side = item.team2 -> 5
      [] item.line_type = "over/under" /\ item.side = "over" -> 6
      [] item.line_type = "over/under" /\ item.side = "under" -> 7
      [] OTHER -> 0

\* C9: the list is ordered by row and, within a row, by market: moneyline (team1,
\* team2), draw, spread (team1, team2), over/under (over, under).
C9_RowThenMarketOrder ==
    \A k \in 1..Len(items) : \A l \in 1..Len(items) :
        k < l =>
            /\ Rank(items[k]) # 0
            /\ \/ src[k] < src[l]
               \/ src[k] = src[l] /\ Rank(items[k]) < Rank(items[l])

\* C9 witness: the list is returned with the 7 records of a soccer row and records
\* of another row.
C9_Witness ==
    /\ pc = "save"
    /\ \E i \in 1..Len(Rows) : \E j \in 1..Len(Rows) :
           /\ i # j
           /\ {Rank(items[k]) : k \in RecordsOf(i)} = 1..7
           /\ RecordsOf(j) # {}

\* C10: after each completed cycle the file holds the records of every cycle so
\* far.
C10_FileKeepsEarlierCycles ==
    pc = "sleep" =>
        \A k \in 1..Len(written) : Count(file.v, written[k]) >= Count(written, written[k])

=============================================================================
